---------------------------- MODULE Spec2Model ----------------------------
(***************************************************************************)
(* A model of win-lookaside's LookasideAlloc (src/src/lib.rs): the         *)
(* initialized flag, the spin lock around the LOOKASIDE_LIST_EX handle,    *)
(* and the calls forwarded to the kernel's lookaside-list routines.        *)
(*                                                                         *)
(* Every operation is a sequence of steps of one caller: the call itself   *)
(* (x_begin), the acquisition of the lock (x_lock), the forwarded kernel   *)
(* routine (x_call), and the return, where the MutexGuard is dropped       *)
(* (x_exit).  Callers interleave between steps.  init and destroy take     *)
(* &mut self, but the crate's documentation reaches them through a         *)
(* `static mut`, so they interleave with the other operations too.         *)
(*                                                                         *)
(* The kernel routines are the environment.  ExAllocateFromLookasideListEx *)
(* hands out a block of pool memory that is not allocated at present, or   *)
(* NULL.  Calling it or ExFreeToLookasideListEx on a list that is not      *)
(* initialized is undefined: the kernel stops the system (the behaviour    *)
(* ends there), or it serves the call from the pool as it does on a live   *)
(* list.  pool_type, tag, flags and the two callbacks of init are passed   *)
(* through uninterpreted and are not part of the state.  An argument that  *)
(* only one statement reads (init's size, allocate's layout) is drawn at   *)
(* the step of that statement.                                             *)
(***************************************************************************)
EXTENDS Integers, FiniteSets

\* Number of concurrent callers sharing the instance.
NumThreads == 2

\* Number of block addresses the kernel pool can hand out.
NumBlocks == 2

Threads == 1..NumThreads

\* The null pointer, and the addresses of the pool's blocks.
NULL == 0

Blocks == 1..NumBlocks

\* windows_sys::Win32::Foundation::STATUS_SUCCESS
STATUS_SUCCESS == 0

\* The NTSTATUS values ExInitializeLookasideListEx is taken to return:
\* success, a non-zero non-negative status, STATUS_INSUFFICIENT_RESOURCES.
Statuses == {STATUS_SUCCESS, 1, -1073741670}

\* Block sizes given to init and layout sizes given to allocate/deallocate.
Sizes == {4, 8}

VARIABLES
    init,              \* LookasideAlloc.init: AtomicBool
    lock,              \* spin::Mutex of LookasideAlloc.lookaside: 0 free, else its holder
    borrow,            \* RefCell borrow flag of LookasideAlloc.lookaside
    list,              \* the LookasideList handle, as the kernel sees it
    entries_out,       \* blocks the kernel has handed out and not got back
    pc,                \* each caller's position
    op,                \* the public operation each caller is in
    size,              \* init's size argument / allocate's layout.size()
    ptr,               \* free's ptr argument / alloc's returned pointer
    status,            \* init's local `status`
    ret,               \* the value each caller's last operation returned
    held,              \* blocks each caller got from alloc and has not freed
    entry_init,        \* history: the flag when the caller acquired the lock
    dropped,           \* the instance's lifetime has ended (Drop has begun)
    hist_initialized,  \* history: an init returned Ok and no destroy returned since
    calls              \* history: kernel routine calls each caller's operation has made

vars == <<init, lock, borrow, list, entries_out, pc, op, size, ptr, status,
          ret, held, entry_init, dropped, hist_initialized, calls>>

shared == <<init, lock, borrow, list, entries_out>>

---------------------------------------------------------------------------
\* Return values

NoRet == [tag |-> "none", v |-> 0, n |-> 0]

Ok == [tag |-> "Ok", v |-> 0, n |-> 0]

InitError(s) == [tag |-> "InitError", v |-> s, n |-> 0]

AllocError == [tag |-> "AllocError", v |-> 0, n |-> 0]

\* Ok(NonNull<[u8]>): slice::from_raw_parts_mut(pool, layout.size())
Slice(p, n) == [tag |-> "Block", v |-> p, n |-> n]

Panic == [tag |-> "panic", v |-> 0, n |-> 0]

---------------------------------------------------------------------------
\* Pure helpers

\* NtStatus::is_ok
is_ok(s) == s = STATUS_SUCCESS

\* A status test in the style of NT_SUCCESS: every non-negative code passes.
is_err_nt_success(s) == s < 0

\* NtStatus::is_err
is_err(s) == s /= STATUS_SUCCESS

\* A null test that never fires.
is_null_never(p) == FALSE

\* <*mut u8>::is_null
is_null(p) == p = NULL

\* LookasideList::init: the zero-filled handle
LookasideList_init == [live |-> FALSE, size |-> 0]

---------------------------------------------------------------------------
\* spin::Mutex

\* A lock that is taken without waiting for the holder to release it.
lock_acquire_nowait(t) == lock' = t

\* self.lookaside.lock(): spins until the lock is free, then takes it
lock_acquire(t) == lock = 0 /\ lock' = t

\* MutexGuard::drop at the end of the function
lock_release == lock' = 0

---------------------------------------------------------------------------
\* The kernel's lookaside-list routines (the environment)

\* ExInitializeLookasideListEx(list, .., size, ..) returning status s
ExInitializeLookasideListEx(sz, s) ==
    /\ list' = IF s = STATUS_SUCCESS THEN [live |-> TRUE, size |-> sz] ELSE list
    /\ UNCHANGED entries_out

\* ExDeleteLookasideListEx(list)
ExDeleteLookasideListEx ==
    /\ list' = [list EXCEPT !.live = FALSE]
    /\ UNCHANGED entries_out

\* The pointers ExAllocateFromLookasideListEx(list) may return
AllocateResults == {NULL} \cup (Blocks \ entries_out)

\* ExAllocateFromLookasideListEx(list) returning p
ExAllocateFromLookasideListEx(p) ==
    /\ p \in AllocateResults
    /\ entries_out' = IF p = NULL THEN entries_out ELSE entries_out \cup {p}
    /\ UNCHANGED list

\* ExFreeToLookasideListEx(list, entry)
ExFreeToLookasideListEx(entry) ==
    /\ entries_out' = entries_out \ {entry}
    /\ UNCHANGED list

---------------------------------------------------------------------------
\* The state after LookasideAlloc::default()

Init ==
    /\ init = FALSE
    /\ lock = 0
    /\ borrow = FALSE
    /\ list = LookasideList_init
    /\ entries_out = {}
    /\ pc = [t \in Threads |-> "idle"]
    /\ op = [t \in Threads |-> "none"]
    /\ size = [t \in Threads |-> 0]
    /\ ptr = [t \in Threads |-> NULL]
    /\ status = [t \in Threads |-> STATUS_SUCCESS]
    /\ ret = [t \in Threads |-> NoRet]
    /\ held = [t \in Threads |-> {}]
    /\ entry_init = [t \in Threads |-> FALSE]
    /\ dropped = FALSE
    /\ hist_initialized = FALSE
    /\ calls = [t \in Threads |-> 0]

\* The caller's operation has made one more call of a kernel routine.
Called(t) == calls' = [calls EXCEPT ![t] = @ + 1]

\* A caller may start an operation: it is in none, and the instance exists.
CanCall(t) == pc[t] = "idle" /\ ~dropped

\* A call of operation o: the caller moves to the first statement.
Enter(t, o, first) ==
    /\ pc' = [pc EXCEPT ![t] = first]
    /\ op' = [op EXCEPT ![t] = o]

\* The first statement of init, destroy, alloc and free: let lock = ...lock()
Acquire(t, here, next) ==
    /\ pc[t] = here
    /\ lock_acquire(t)
    /\ pc' = [pc EXCEPT ![t] = next]
    /\ entry_init' = [entry_init EXCEPT ![t] = init]
    /\ UNCHANGED <<init, borrow, list, entries_out, op, size, ptr, status, ret,
                   held, dropped, hist_initialized, calls>>

\* The caller's locals after a return: the caller has taken the value.
Leave(t) ==
    /\ pc' = [pc EXCEPT ![t] = "idle"]
    /\ op' = [op EXCEPT ![t] = "none"]
    /\ size' = [size EXCEPT ![t] = 0]
    /\ ptr' = [ptr EXCEPT ![t] = NULL]
    /\ status' = [status EXCEPT ![t] = STATUS_SUCCESS]
    /\ entry_init' = [entry_init EXCEPT ![t] = FALSE]
    /\ ret' = [ret EXCEPT ![t] = NoRet]
    /\ calls' = [calls EXCEPT ![t] = 0]

---------------------------------------------------------------------------
\* LookasideAlloc::init

init_begin(t) ==
    /\ CanCall(t)
    /\ Enter(t, "init", "init_lock")
    /\ UNCHANGED <<shared, size, ptr, status, ret, held, entry_init, dropped,
                   hist_initialized, calls>>

\* An init that goes on to the call without taking the lock.
init_lock_skipped(t) ==
    /\ pc[t] = "init_lock"
    /\ pc' = [pc EXCEPT ![t] = "init_call"]
    /\ entry_init' = [entry_init EXCEPT ![t] = init]
    /\ UNCHANGED <<shared, op, size, ptr, status, ret, held, dropped,
                   hist_initialized, calls>>

init_lock(t) == Acquire(t, "init_lock", "init_call")

\* The call with init's argument size = sz, which returns status s.
init_call(t, sz, s) ==
    /\ pc[t] = "init_call"
    /\ ExInitializeLookasideListEx(sz, s)
    /\ Called(t)
    /\ size' = [size EXCEPT ![t] = sz]
    /\ status' = [status EXCEPT ![t] = s]
    /\ pc' = [pc EXCEPT ![t] = "init_check"]
    /\ UNCHANGED <<init, lock, borrow, op, ptr, ret, held, entry_init,
                   dropped, hist_initialized>>

\* An init that stores false into the flag when the status is an error.
init_check_clearing(t) ==
    /\ pc[t] = "init_check"
    /\ IF is_err(status[t])
          THEN /\ ret' = [ret EXCEPT ![t] = InitError(status[t])]
               /\ init' = FALSE
          ELSE /\ init' = TRUE
               /\ ret' = [ret EXCEPT ![t] = Ok]
    /\ pc' = [pc EXCEPT ![t] = "init_exit"]
    /\ UNCHANGED <<lock, borrow, list, entries_out, op, size, ptr, status, held,
                   entry_init, dropped, hist_initialized, calls>>

\* if status.is_err() { return Err(..) }  self.init.store(true);  Ok(())
init_check(t) ==
    /\ pc[t] = "init_check"
    /\ IF is_err(status[t])
          THEN /\ ret' = [ret EXCEPT ![t] = InitError(status[t])]
               /\ UNCHANGED init
          ELSE /\ init' = TRUE
               /\ ret' = [ret EXCEPT ![t] = Ok]
    /\ pc' = [pc EXCEPT ![t] = "init_exit"]
    /\ UNCHANGED <<lock, borrow, list, entries_out, op, size, ptr, status, held,
                   entry_init, dropped, hist_initialized, calls>>

\* An init whose early return on an error status keeps the lock.
init_exit_leaky(t) ==
    /\ pc[t] = "init_exit"
    /\ IF ret[t] = Ok THEN lock_release ELSE UNCHANGED lock
    /\ Leave(t)
    /\ hist_initialized' = IF ret[t] = Ok THEN TRUE ELSE hist_initialized
    /\ UNCHANGED <<init, borrow, list, entries_out, held, dropped>>

init_exit(t) ==
    /\ pc[t] = "init_exit"
    /\ lock_release
    /\ Leave(t)
    /\ hist_initialized' = IF ret[t] = Ok THEN TRUE ELSE hist_initialized
    /\ UNCHANGED <<init, borrow, list, entries_out, held, dropped>>

---------------------------------------------------------------------------
\* LookasideAlloc::destroy, and Drop::drop, which calls it

destroy_begin(t) ==
    /\ CanCall(t)
    /\ Enter(t, "destroy", "destroy_lock")
    /\ UNCHANGED <<shared, size, ptr, status, ret, held, entry_init, dropped,
                   hist_initialized, calls>>

\* The owner's scope ends: no caller is inside an operation.
drop_begin(t) ==
    /\ CanCall(t)
    /\ \A u \in Threads : pc[u] \in {"idle", "panicked"}
    /\ Enter(t, "drop", "destroy_lock")
    /\ dropped' = TRUE
    /\ UNCHANGED <<shared, size, ptr, status, ret, held, entry_init,
                   hist_initialized, calls>>

destroy_lock(t) == Acquire(t, "destroy_lock", "destroy_load")

\* if self.init.load(Ordering::Relaxed) { .. }
destroy_load(t) ==
    /\ pc[t] = "destroy_load"
    /\ pc' = [pc EXCEPT ![t] = IF init THEN "destroy_call" ELSE "destroy_exit"]
    /\ UNCHANGED <<shared, op, size, ptr, status, ret, held, entry_init, dropped,
                   hist_initialized, calls>>

destroy_call(t) ==
    /\ pc[t] = "destroy_call"
    /\ ExDeleteLookasideListEx
    /\ Called(t)
    /\ pc' = [pc EXCEPT ![t] = "destroy_exit"]
    /\ UNCHANGED <<init, lock, borrow, op, size, ptr, status, ret, held,
                   entry_init, dropped, hist_initialized>>

destroy_exit(t) ==
    /\ pc[t] = "destroy_exit"
    /\ lock_release
    /\ Leave(t)
    /\ hist_initialized' = FALSE
    /\ UNCHANGED <<init, borrow, list, entries_out, held, dropped>>

---------------------------------------------------------------------------
\* LookasideAlloc::borrow_mut_list: list.try_borrow_mut().unwrap().as_mut_ptr()

\* try_borrow_mut().unwrap(): panics when the RefCell is borrowed already
borrow_mut_list_borrow(t, here, next) ==
    /\ pc[t] = here
    /\ IF borrow
          THEN /\ pc' = [pc EXCEPT ![t] = "panicked"]
               /\ ret' = [ret EXCEPT ![t] = Panic]
               /\ lock_release
               /\ UNCHANGED borrow
          ELSE /\ pc' = [pc EXCEPT ![t] = next]
               /\ borrow' = TRUE
               /\ UNCHANGED <<ret, lock>>
    /\ UNCHANGED <<init, list, entries_out, op, size, ptr, status, held,
                   entry_init, dropped, hist_initialized, calls>>

\* as_mut_ptr(), and the RefMut temporary is dropped
borrow_mut_list_release(t, here, next) ==
    /\ pc[t] = here
    /\ borrow' = FALSE
    /\ pc' = [pc EXCEPT ![t] = next]
    /\ UNCHANGED <<init, lock, list, entries_out, op, size, ptr, status, ret,
                   held, entry_init, dropped, hist_initialized, calls>>

---------------------------------------------------------------------------
\* LookasideAlloc::alloc, and Allocator::allocate, which calls it

alloc_begin(t) ==
    /\ CanCall(t)
    /\ Enter(t, "alloc", "alloc_lock")
    /\ UNCHANGED <<shared, size, ptr, status, ret, held, entry_init, dropped,
                   hist_initialized, calls>>

allocate_begin(t) ==
    /\ CanCall(t)
    /\ Enter(t, "allocate", "alloc_lock")
    /\ UNCHANGED <<shared, size, ptr, status, ret, held, entry_init, dropped,
                   hist_initialized, calls>>

\* An alloc that reads the flag and returns null when it is false.
alloc_lock_checked(t) ==
    /\ pc[t] = "alloc_lock"
    /\ lock_acquire(t)
    /\ pc' = [pc EXCEPT ![t] = IF init THEN "alloc_borrow" ELSE "alloc_exit"]
    /\ entry_init' = [entry_init EXCEPT ![t] = init]
    /\ UNCHANGED <<init, borrow, list, entries_out, op, size, ptr, status, ret,
                   held, dropped, hist_initialized, calls>>

alloc_lock(t) == Acquire(t, "alloc_lock", "alloc_borrow")

alloc_borrow(t) == borrow_mut_list_borrow(t, "alloc_borrow", "alloc_ptr")

alloc_ptr(t) == borrow_mut_list_release(t, "alloc_ptr", "alloc_call")

\* An alloc that calls the kernel routine again when it returns null.
alloc_call_retry(t, p) ==
    /\ pc[t] = "alloc_call"
    /\ ExAllocateFromLookasideListEx(p)
    /\ Called(t)
    /\ ptr' = [ptr EXCEPT ![t] = p]
    /\ pc' = [pc EXCEPT ![t] = IF p = NULL THEN "alloc_call" ELSE "alloc_exit"]
    /\ UNCHANGED <<init, lock, borrow, op, size, status, ret, held, entry_init,
                   dropped, hist_initialized>>

alloc_call(t, p) ==
    /\ pc[t] = "alloc_call"
    /\ ExAllocateFromLookasideListEx(p)
    /\ Called(t)
    /\ ptr' = [ptr EXCEPT ![t] = p]
    /\ pc' = [pc EXCEPT ![t] = "alloc_exit"]
    /\ UNCHANGED <<init, lock, borrow, op, size, status, ret, held, entry_init,
                   dropped, hist_initialized>>

\* An allocate that refuses a layout larger than the list's block size.
allocate_result_checked(pool, n) ==
    IF is_null(pool) \/ n > list.size THEN AllocError ELSE Slice(pool, n)

\* if pool.is_null() { return Err(AllocError) }  Ok(slice of layout.size())
allocate_result(pool, n) == IF is_null(pool) THEN AllocError ELSE Slice(pool, n)

\* alloc returns: to its caller, who keeps the block, or into allocate's
\* `pool`, from which allocate makes its result
\* (n is allocate's argument layout.size(), read here for the first time)
alloc_exit(t, n) ==
    /\ pc[t] = "alloc_exit"
    /\ lock_release
    /\ IF op[t] = "alloc"
          THEN /\ Leave(t)
               /\ held' = [held EXCEPT ![t] =
                              IF ptr[t] = NULL THEN @ ELSE @ \cup {ptr[t]}]
          ELSE /\ pc' = [pc EXCEPT ![t] = "allocate_exit"]
               /\ size' = [size EXCEPT ![t] = n]
               /\ ret' = [ret EXCEPT ![t] = allocate_result(ptr[t], n)]
               /\ entry_init' = [entry_init EXCEPT ![t] = FALSE]
               /\ UNCHANGED <<op, ptr, status, held, calls>>
    /\ UNCHANGED <<init, borrow, list, entries_out, dropped, hist_initialized>>

\* allocate returns; the caller keeps the block of an Ok
allocate_exit(t) ==
    /\ pc[t] = "allocate_exit"
    /\ Leave(t)
    /\ held' = [held EXCEPT ![t] =
                   IF ret[t].tag = "Block" THEN @ \cup {ret[t].v} ELSE @]
    /\ UNCHANGED <<shared, dropped, hist_initialized>>

---------------------------------------------------------------------------
\* LookasideAlloc::free, and Allocator::deallocate, which calls it

\* The caller hands back a block it holds.
free_begin(t, p) ==
    /\ CanCall(t)
    /\ p \in held[t]
    /\ Enter(t, "free", "free_lock")
    /\ ptr' = [ptr EXCEPT ![t] = p]
    /\ held' = [held EXCEPT ![t] = @ \ {p}]
    /\ UNCHANGED <<shared, size, status, ret, entry_init, dropped,
                   hist_initialized, calls>>

\* deallocate(ptr, _layout) is self.free(ptr.as_ptr()): the layout is not used
deallocate_begin(t, p, sz) ==
    /\ CanCall(t)
    /\ p \in held[t]
    /\ sz \in Sizes
    /\ Enter(t, "free", "free_lock")
    /\ ptr' = [ptr EXCEPT ![t] = p]
    /\ held' = [held EXCEPT ![t] = @ \ {p}]
    /\ UNCHANGED <<shared, size, status, ret, entry_init, dropped,
                   hist_initialized, calls>>

free_lock(t) == Acquire(t, "free_lock", "free_borrow")

free_borrow(t) == borrow_mut_list_borrow(t, "free_borrow", "free_ptr")

free_ptr(t) == borrow_mut_list_release(t, "free_ptr", "free_call")

\* A free that hands the kernel nothing.
free_call_dropped(t) ==
    /\ pc[t] = "free_call"
    /\ pc' = [pc EXCEPT ![t] = "free_exit"]
    /\ UNCHANGED <<shared, op, size, ptr, status, ret, held, entry_init, dropped,
                   hist_initialized, calls>>

\* A free that hands the kernel the address of another block.
free_call_other(t) ==
    /\ pc[t] = "free_call"
    /\ ExFreeToLookasideListEx((ptr[t] % NumBlocks) + 1)
    /\ Called(t)
    /\ pc' = [pc EXCEPT ![t] = "free_exit"]
    /\ UNCHANGED <<init, lock, borrow, op, size, ptr, status, ret, held,
                   entry_init, dropped, hist_initialized>>

\* ExFreeToLookasideListEx(.., ptr as _)
free_call(t) ==
    /\ pc[t] = "free_call"
    /\ ExFreeToLookasideListEx(ptr[t])
    /\ Called(t)
    /\ pc' = [pc EXCEPT ![t] = "free_exit"]
    /\ UNCHANGED <<init, lock, borrow, op, size, ptr, status, ret, held,
                   entry_init, dropped, hist_initialized>>

free_exit(t) ==
    /\ pc[t] = "free_exit"
    /\ lock_release
    /\ Leave(t)
    /\ UNCHANGED <<init, borrow, list, entries_out, held, dropped, hist_initialized>>

---------------------------------------------------------------------------
\* Allocator::grow, grow_zeroed, shrink: panic!("Not supported")

\* The arguments (_ptr, _old_layout, _new_layout) are not used.
not_supported(t, o) ==
    /\ CanCall(t)
    /\ pc' = [pc EXCEPT ![t] = "panicked"]
    /\ op' = [op EXCEPT ![t] = o]
    /\ ret' = [ret EXCEPT ![t] = Panic]
    /\ UNCHANGED <<shared, size, ptr, status, held, entry_init, dropped,
                   hist_initialized, calls>>

\* A resize that falls back on a fresh allocation, as Allocator's default does.
grow_fallback(t) ==
    /\ CanCall(t)
    /\ Enter(t, "grow", "alloc_lock")
    /\ UNCHANGED <<shared, size, ptr, status, ret, held, entry_init, dropped,
                   hist_initialized, calls>>

grow(t) == not_supported(t, "grow")

grow_zeroed(t) == not_supported(t, "grow_zeroed")

shrink(t) == not_supported(t, "shrink")

---------------------------------------------------------------------------

Next ==
    \E t \in Threads :
        \/ init_begin(t)
        \/ init_lock(t)
        \/ \E sz \in Sizes, s \in Statuses : init_call(t, sz, s)
        \/ init_check(t)
        \/ init_exit(t)
        \/ destroy_begin(t)
        \/ drop_begin(t)
        \/ destroy_lock(t)
        \/ destroy_load(t)
        \/ destroy_call(t)
        \/ destroy_exit(t)
        \/ alloc_begin(t)
        \/ allocate_begin(t)
        \/ alloc_lock(t)
        \/ alloc_borrow(t)
        \/ alloc_ptr(t)
        \/ \E p \in Blocks \cup {NULL} : alloc_call(t, p)
        \/ \E n \in Sizes : alloc_exit(t, n)
        \/ allocate_exit(t)
        \/ \E p \in Blocks : free_begin(t, p)
        \/ \E p \in Blocks, sz \in Sizes : deallocate_begin(t, p, sz)
        \/ free_lock(t)
        \/ free_borrow(t)
        \/ free_ptr(t)
        \/ free_call(t)
        \/ free_exit(t)
        \/ grow(t)
        \/ grow_zeroed(t)
        \/ shrink(t)

Spec == Init /\ [][Next]_vars

---------------------------------------------------------------------------
\* Scheduling: a caller inside an operation keeps running, every kernel
\* routine returns, and a caller that spins on the lock gets it at some
\* time the lock is free.

\* The steps that take the lock.
LockSteps(t) ==
    \/ init_lock(t)
    \/ destroy_lock(t)
    \/ alloc_lock(t)
    \/ free_lock(t)

\* The steps of a caller inside an operation after it has taken the lock.
RunSteps(t) ==
    \/ \E sz \in Sizes, s \in Statuses : init_call(t, sz, s)
    \/ init_check(t)
    \/ init_exit(t)
    \/ destroy_load(t)
    \/ destroy_call(t)
    \/ destroy_exit(t)
    \/ alloc_borrow(t)
    \/ alloc_ptr(t)
    \/ \E p \in Blocks \cup {NULL} : alloc_call(t, p)
    \/ \E n \in Sizes : alloc_exit(t, n)
    \/ allocate_exit(t)
    \/ free_borrow(t)
    \/ free_ptr(t)
    \/ free_call(t)
    \/ free_exit(t)

SpecFair ==
    /\ Init
    /\ [][Next]_vars
    /\ \A t \in Threads : WF_vars(RunSteps(t)) /\ SF_vars(LockSteps(t))

---------------------------------------------------------------------------
\* Balanced use of an instance that is initialized first: one init at a time
\* until one succeeds, then callers that only allocate and free.

\* The instance is initialized and no init is running.
Ready == init /\ \A u \in Threads : op[u] /= "init"

\* An init is called only while the instance is not initialized and idle.
first_init_begin(t) ==
    /\ ~init
    /\ \A u \in Threads : pc[u] = "idle"
    /\ init_begin(t)

pair_alloc_begin(t) == Ready /\ alloc_begin(t)

pair_allocate_begin(t) == Ready /\ allocate_begin(t)

pair_free_begin(t, p) == Ready /\ free_begin(t, p)

pair_deallocate_begin(t, p, sz) == Ready /\ deallocate_begin(t, p, sz)

NextPairs ==
    \E t \in Threads :
        \/ first_init_begin(t)
        \/ init_lock(t)
        \/ \E sz \in Sizes, s \in Statuses : init_call(t, sz, s)
        \/ init_check(t)
        \/ init_exit(t)
        \/ pair_alloc_begin(t)
        \/ pair_allocate_begin(t)
        \/ \E p \in Blocks : pair_free_begin(t, p)
        \/ \E p \in Blocks, sz \in Sizes : pair_deallocate_begin(t, p, sz)
        \/ alloc_lock(t)
        \/ alloc_borrow(t)
        \/ alloc_ptr(t)
        \/ \E p \in Blocks \cup {NULL} : alloc_call(t, p)
        \/ \E n \in Sizes : alloc_exit(t, n)
        \/ allocate_exit(t)
        \/ free_lock(t)
        \/ free_borrow(t)
        \/ free_ptr(t)
        \/ free_call(t)
        \/ free_exit(t)

SpecPairs == Init /\ [][NextPairs]_vars

---------------------------------------------------------------------------
\* Properties

\* No operation is in flight.
Quiescent == \A t \in Threads : pc[t] \in {"idle", "panicked"}

\* The positions at which a caller has taken the lock and not yet released it.
CriticalPCs ==
    {"init_call", "init_check", "init_exit",
     "destroy_load", "destroy_call", "destroy_exit",
     "alloc_borrow", "alloc_ptr", "alloc_call", "alloc_exit",
     "free_borrow", "free_ptr", "free_call", "free_exit"}

\* The positions at which a caller is about to call a kernel routine.
FacilityPCs == {"init_call", "destroy_call", "alloc_call", "free_call"}

ResizeOps == {"grow", "grow_zeroed", "shrink"}

\* The blocks a caller owns: from ExAllocateFromLookasideListEx's return
\* (in alloc's result, then in the caller's hands) until the caller's free
\* has passed them to ExFreeToLookasideListEx.
Owned(t) ==
    held[t]
    \cup (IF pc[t] \in {"alloc_exit", "allocate_exit"}
              /\ ptr[t] /= NULL
          THEN {ptr[t]} ELSE {})
    \cup (IF pc[t] \in {"free_lock", "free_borrow", "free_ptr", "free_call"}
          THEN {ptr[t]} ELSE {})

\* C1: whenever no operation is in flight, the initialized flag is true if
\* and only if some init has returned Ok and no destroy has returned since.
C1_FlagTracksLifecycle == Quiescent => (init <=> hist_initialized)

\* C2: when a destroy that found the flag true returns, the flag is false.
C2_DestroyClearsFlag ==
    \A t \in Threads : (pc[t] = "destroy_exit" /\ entry_init[t]) => ~init

\* C3: destroy forwards delete_list only for a handle that is live, that is,
\* at most once per successful init: never for a never-initialized or an
\* already torn-down handle.
C3_DeleteOncePerInit ==
    \A t \in Threads : pc[t] = "destroy_call" => list.live

\* C4: the destroy run by drop forwards delete_list only if an init
\* succeeded and no destroy was called since, and in that case it does
\* forward it: after drop's destroy the handle is not live.
C4_DropTearsDownOnlyIfNeeded ==
    \A t \in Threads :
        op[t] = "drop" =>
            /\ pc[t] = "destroy_call" => hist_initialized
            /\ pc[t] = "destroy_exit" => ~list.live

\* C5: an init that acquired the lock with the flag false returns Ok with
\* the flag true if init_list's status is the success value, and otherwise
\* returns InitError carrying that status with the flag still false.
C5_InitFollowsStatus ==
    \A t \in Threads :
        (pc[t] = "init_exit" /\ ~entry_init[t]) =>
            IF status[t] = STATUS_SUCCESS
               THEN ret[t] = Ok /\ init
               ELSE ret[t] = InitError(status[t]) /\ ~init

C5_Witness ==
    \E t \in Threads :
        /\ pc[t] = "init_exit" /\ ~entry_init[t]
        /\ status[t] = 1 /\ ret[t] = InitError(1) /\ ~init

\* C6: every caller between its acquisition of the lock and its release is
\* the lock's holder, so at most one caller is there at a time, and each
\* kernel routine is called by the holder of the lock.
C6_MutualExclusion ==
    /\ \A t \in Threads : pc[t] \in CriticalPCs => lock = t
    /\ \A t, u \in Threads :
          (pc[t] \in FacilityPCs /\ pc[u] \in FacilityPCs) => t = u

C6_Witness ==
    \E t, u \in Threads :
        /\ pc[t] = "alloc_call" /\ lock = t
        /\ pc[u] \in {"init_lock", "destroy_lock", "alloc_lock", "free_lock"}

\* C7: allocate returns Err(AllocError) exactly when alloc returned null,
\* and otherwise Ok with that non-null pointer; it never panics; the flag
\* when alloc is about to return is the flag it found, and the lock is
\* released when allocate returns.
C7_AllocateErrIffNull ==
    \A t \in Threads :
        /\ (pc[t] = "allocate_exit") =>
              /\ ret[t] = AllocError <=> ptr[t] = NULL
              /\ ptr[t] /= NULL => ret[t] = Slice(ptr[t], size[t])
              /\ lock /= t
        /\ (pc[t] = "alloc_exit" /\ op[t] = "allocate") => init = entry_init[t]
        /\ pc[t] = "panicked" => op[t] \notin {"alloc", "allocate"}

\* The pool is exhausted on a live list, and allocate returns the failure.
C7_Witness ==
    \E t \in Threads :
        /\ pc[t] = "allocate_exit" /\ ret[t] = AllocError
        /\ list.live /\ entries_out = Blocks

\* C8: a call of grow, grow_zeroed or shrink panics in the step that makes
\* it, whatever the state: it calls no kernel routine, and changes neither
\* the flag, the lock nor the handle; the caller returns nothing.
C8_ResizeAlwaysPanics ==
    /\ [](\A t \in Threads :
            op[t] \in ResizeOps => pc[t] = "panicked" /\ ret[t] = Panic)
    /\ [][\A t \in Threads :
            (op[t] \notin ResizeOps /\ op'[t] \in ResizeOps) =>
                /\ pc'[t] = "panicked"
                /\ UNCHANGED <<init, lock, borrow, list, entries_out, held>>]_vars

C8_Witness ==
    \E t, u \in Threads :
        /\ op[t] = "grow" /\ pc[t] = "panicked" /\ init
        /\ op[u] = "shrink" /\ pc[u] = "panicked"

\* C9: among callers that allocate and free on an initialized instance, no
\* block is owned by two callers at once, and the flag stays true.
C9_NoSharedBlock ==
    /\ \A t, u \in Threads : t /= u => Owned(t) \cap Owned(u) = {}
    /\ (\E t \in Threads : op[t] \in {"alloc", "allocate", "free"}) => init

C9_Witness ==
    \E t, u \in Threads :
        /\ t /= u /\ init
        /\ held[t] /= {} /\ pc[t] = "alloc_lock"
        /\ pc[u] = "alloc_exit" /\ ptr[u] /= NULL

\* C10: on an initialized instance, once every block handed out has been
\* passed back to free, no block is outstanding at the kernel, and a further
\* allocation can be given a block.
C10_BalancedUseDoesNotLeak ==
    (init /\ \A t \in Threads : Owned(t) = {}) =>
        /\ entries_out = {}
        /\ AllocateResults \cap Blocks /= {}

\* A free has just handed back the last block that was out.
C10_Witness ==
    \E t \in Threads :
        /\ pc[t] = "free_exit" /\ init /\ entries_out = {}
        /\ \A u \in Threads : Owned(u) = {}

\* C11: init forwards init_list only for a handle that is not live: an init
\* that follows a successful init with no destroy between them does not
\* reach ExInitializeLookasideListEx.
C11_NoDoubleInit ==
    \A t \in Threads : pc[t] = "init_call" => ~list.live

\* C12: every step that changes the initialized flag is a step of the
\* caller that holds the lock, before and after the step; no step of a
\* caller that does not hold the lock changes the flag.
C12_FlagChangesUnderLock ==
    [][init' /= init =>
          \E t \in Threads :
              /\ lock = t /\ lock' = t
              /\ pc[t] /= pc'[t]
              /\ \A u \in Threads \ {t} : pc'[u] = pc[u]]_vars

\* An init has just set the flag, holding the lock, while another caller
\* waits for the lock.
C12_Witness ==
    \E t, u \in Threads :
        /\ pc[t] = "init_exit" /\ ~entry_init[t] /\ init /\ lock = t
        /\ pc[u] \in {"init_lock", "destroy_lock"}

\* The positions of alloc and free between taking the lock and releasing it.
AllocFreePCs ==
    {"alloc_borrow", "alloc_ptr", "alloc_call", "alloc_exit",
     "free_borrow", "free_ptr", "free_call", "free_exit"}

\* C14: from the lock's acquisition to its release, an alloc or a free
\* leaves the flag as it found it, and whatever the flag is, true or
\* false, it has made its one call of ExAllocateFromLookasideListEx or
\* ExFreeToLookasideListEx when it is about to return.
C14_AllocFreeIgnoreFlag ==
    \A t \in Threads :
        /\ pc[t] \in AllocFreePCs => init = entry_init[t]
        /\ pc[t] \in {"alloc_exit", "free_exit"} => calls[t] = 1

\* A free on an instance that was never initialized has forwarded its
\* pointer, which an alloc on that instance had returned, while another
\* caller's alloc waits for the lock.
C14_Witness ==
    \E t, u \in Threads :
        /\ pc[t] = "free_exit" /\ calls[t] = 1
        /\ ~init /\ ~list.live /\ ~hist_initialized
        /\ pc[u] = "alloc_lock"

\* C15: no operation calls a kernel routine twice. When it is about to
\* return, an init, an alloc and a free have made exactly one call, and a
\* destroy one call if it found the flag true and none otherwise; alloc's
\* result is what its call returned, null included, and the pointer free's
\* call was given is the caller's.
C15_NoRetry ==
    \A t \in Threads :
        /\ calls[t] <= 1
        /\ pc[t] \in {"init_exit", "alloc_exit", "free_exit"} => calls[t] = 1
        /\ pc[t] = "destroy_exit" => calls[t] = (IF entry_init[t] THEN 1 ELSE 0)
        /\ pc[t] = "alloc_exit" => (ptr[t] = NULL \/ ptr[t] \in entries_out)
        /\ pc[t] = "free_exit" => ptr[t] \notin entries_out

\* An alloc returns null after its one call, although the kernel has a block
\* left that a second call could have returned.
C15_Witness ==
    \E t \in Threads :
        /\ pc[t] = "alloc_exit" /\ op[t] = "alloc"
        /\ ptr[t] = NULL /\ calls[t] = 1
        /\ AllocateResults \cap Blocks /= {}

\* C16: when allocate is about to return and alloc's pointer is not null,
\* its result is Ok with a block at that pointer whose size is the layout's
\* size, whatever the block size given to init; and every deallocate step
\* with pointer p is, for every layout, the step of free with pointer p.
C16_LayoutNotChecked ==
    /\ [](\A t \in Threads :
            (pc[t] = "allocate_exit" /\ ptr[t] /= NULL) =>
                /\ ret[t].tag = "Block"
                /\ ret[t].v = ptr[t]
                /\ ret[t].n = size[t])
    /\ [][\A t \in Threads, p \in Blocks, sz \in Sizes :
            deallocate_begin(t, p, sz) => free_begin(t, p)]_vars

\* allocate returns a block of a size larger than the block size of the
\* live list, while another caller's free or deallocate is at its call.
C16_Witness ==
    \E t, u \in Threads :
        /\ pc[t] = "allocate_exit" /\ ret[t].tag = "Block"
        /\ list.live /\ ret[t].n > list.size
        /\ pc[u] = "free_call"

\* C17: when an init is about to return InitError, the flag is what it was
\* when the init acquired the lock, false or true.
C17_FailedInitKeepsFlag ==
    \A t \in Threads :
        (pc[t] = "init_exit" /\ ret[t].tag = "InitError") =>
            init = entry_init[t]

\* An init fails on an instance whose flag is true, and the flag is true
\* when it returns.
C17_Witness ==
    \E t \in Threads :
        /\ pc[t] = "init_exit" /\ ret[t].tag = "InitError"
        /\ entry_init[t] /\ init

\* C13: a caller that is inside init, destroy, alloc or free (or allocate,
\* deallocate, drop, which run them) eventually returns; whenever no
\* operation is in flight the lock is free; and the lock is held only by a
\* caller that is between its acquisition and its release.
C13_OperationsComplete ==
    /\ \A t \in Threads : (pc[t] \notin {"idle", "panicked"}) ~> (pc[t] = "idle")
    /\ [](Quiescent => lock = 0)
    /\ [](\A t \in Threads : lock = t => pc[t] \in CriticalPCs)

\* An init takes its early return on an error status, still holding the
\* lock, while another caller spins on the lock.
C13_Witness ==
    \E t, u \in Threads :
        /\ pc[t] = "init_exit" /\ ret[t].tag = "InitError" /\ lock = t
        /\ pc[u] \in {"alloc_lock", "free_lock", "init_lock", "destroy_lock"}

===========================================================================
